---- MODULE Spec2Model ----
(***************************************************************************)
(* Model of src/swtpm/fips.c: the host FIPS state accessor                 *)
(* (fips_mode_enabled, fips_mode_disable) and the policy evaluator         *)
(* (_fips_algorithms_are_disabled, fips_algorithms_are_disabled,           *)
(* fips_attributes_disable_bad_algos).                                     *)
(*                                                                         *)
(* C strings are TLA+ strings, NULL-terminated string arrays are sequences *)
(* of strings (the sentinel is the end of the sequence), and an unsigned   *)
(* long is a little-endian sequence of ULONG_LIMBS limbs of 16 bits.       *)
(***************************************************************************)
EXTENDS Integers, Sequences, FiniteSets, TLC

VARIABLES have_fips,            \* build: HAVE_OPENSSL_FIPS_H || HAVE_OPENSSL_FIPS_MODE_SET_API
          fips_mode,            \* the host's FIPS flag, as FIPS_mode() reports it
          pc,                   \* position of the one caller thread
          op,                   \* the exported function that was called
          attributes,           \* argument: requested profile names
          algorithms,           \* argument: enabled algorithm statements
          fips_disabled_algos,  \* argument of _fips_algorithms_are_disabled
          key_sizes,            \* argument of _fips_algorithms_are_disabled
          i,                    \* loop index of _fips_algorithms_are_disabled (0-based)
          all_good,             \* verdict of _fips_algorithms_are_disabled
          iattr,                \* loop index of fips_attributes_disable_bad_algos (0-based)
          ret,                  \* verdict of fips_attributes_disable_bad_algos
          rc,                   \* fips_mode_disable: what the host primitive returned
          log,                  \* lines handed to logprintf, in order
          result                \* value returned to the caller

vars == <<have_fips, fips_mode, pc, op, attributes, algorithms,
          fips_disabled_algos, key_sizes, i, all_good, iattr, ret, rc, log,
          result>>

-----------------------------------------------------------------------------
(* Bounds of the exploration *)

MaxAlgorithms == 2
MaxAttributes == 2

-----------------------------------------------------------------------------
(* Program constants *)

STDOUT_FILENO == 1
STDERR_FILENO == 2

\* (size_t)-1, the length the callers pass for a full-string comparison
SIZE_MAX == -1

\* unsigned long: ULONG_LIMBS limbs of LIMB_BITS bits (LP64)
ULONG_LIMBS == 4
LIMB_BITS == 16
LIMB == 2 ^ LIMB_BITS

\* the list without its last entry
fips_disabled_short == <<"camellia", "rsaes">>

fips_disabled == <<"camellia", "rsaes", "tdes">>

fips_key_sizes == << [keyword |-> "ecc-min-size=", min_size |-> 224] >>

fips_attributes ==
    << [attr |-> "fips-host",
        fips_disabled_algos |-> fips_disabled,
        fips_key_sizes |-> fips_key_sizes] >>

MSG_DISABLED == "Warning: Disabled OpenSSL FIPS mode\n"
MSG_FAILED   == "Failed to disable OpenSSL FIPS mode: %s\n"
MSG_CONTAIN  == "Warning(FIPS): Enable algorithms contain '%s'.\n"
MSG_SMALLER  == "Warning(FIPS): Enabled key sizes %s%lu is smaller than required %u.\n"
MSG_MISSING  == "Warning(FIPS): Missing statement '%s%u' to restrict key size.\n"

-----------------------------------------------------------------------------
(* unsigned long arithmetic *)

ULONG_ZERO == [k \in 1..ULONG_LIMBS |-> 0]
ULONG_MAX  == [k \in 1..ULONG_LIMBS |-> LIMB - 1]

\* an unsigned int (below 2^31 here) converted to unsigned long
ToULong(n) ==
    [k \in 1..ULONG_LIMBS |-> IF k = 1 THEN n % LIMB
                              ELSE IF k = 2 THEN n \div LIMB ELSE 0]

RECURSIVE MulAddLimbs(_, _)
\* x * 10 + carry, limb by limb; the last element is the carry out
MulAddLimbs(x, carry) ==
    IF x = <<>> THEN <<carry>>
    ELSE LET t == Head(x) * 10 + carry
         IN  <<t % LIMB>> \o MulAddLimbs(Tail(x), t \div LIMB)

RECURSIVE IncLimbs(_, _)
IncLimbs(x, carry) ==
    IF x = <<>> THEN <<>>
    ELSE LET t == Head(x) + carry
         IN  <<t % LIMB>> \o IncLimbs(Tail(x), t \div LIMB)

\* -x as an unsigned long (two's complement)
ULongNeg(x) == IncLimbs([k \in 1..ULONG_LIMBS |-> LIMB - 1 - x[k]], 1)

RECURSIVE ULongLessFrom(_, _, _)
ULongLessFrom(a, b, k) ==
    IF k = 0 THEN FALSE
    ELSE IF a[k] # b[k] THEN a[k] < b[k]
    ELSE ULongLessFrom(a, b, k - 1)

\* a < b on unsigned long
ULongLess(a, b) == ULongLessFrom(a, b, ULONG_LIMBS)

-----------------------------------------------------------------------------
(* C library: strtoul(s, NULL, 10) *)

CharAt(s, k) == SubSeq(s, k, k)

IsSpace(c) == c \in {" ", "\t", "\n", "\f", "\r"}

Digits == <<"0", "1", "2", "3", "4", "5", "6", "7", "8", "9">>

IsDigit(c) == \E d \in 1..10 : Digits[d] = c

DigitVal(c) == (CHOOSE d \in 1..10 : Digits[d] = c) - 1

RECURSIVE SkipSpace(_, _)
\* first position at or after p that holds no white space
SkipSpace(s, p) ==
    IF p <= Len(s) /\ IsSpace(CharAt(s, p)) THEN SkipSpace(s, p + 1) ELSE p

RECURSIVE ParseDigits(_, _, _, _, _)
\* accumulate the decimal digits from position p on
ParseDigits(s, p, acc, any, overflow) ==
    IF p <= Len(s) /\ IsDigit(CharAt(s, p))
    THEN LET m == MulAddLimbs(acc, DigitVal(CharAt(s, p)))
         IN  ParseDigits(s, p + 1, SubSeq(m, 1, ULONG_LIMBS), TRUE,
                         overflow \/ m[ULONG_LIMBS + 1] # 0)
    ELSE [val |-> acc, any |-> any, overflow |-> overflow]

strtoul(s) ==
    LET p0  == SkipSpace(s, 1)
        neg == p0 <= Len(s) /\ CharAt(s, p0) = "-"
        p1  == IF p0 <= Len(s) /\ CharAt(s, p0) \in {"+", "-"} THEN p0 + 1 ELSE p0
        r   == ParseDigits(s, p1, ULONG_ZERO, FALSE, FALSE)
    IN  IF ~r.any THEN ULONG_ZERO
        ELSE IF r.overflow THEN ULONG_MAX
        ELSE IF neg THEN ULongNeg(r.val)
        ELSE r.val

-----------------------------------------------------------------------------
(* Helpers of the repository the evaluator calls *)

\* the first n characters of s, all of s when it is shorter
Take(s, n) == IF n = SIZE_MAX \/ n >= Len(s) THEN s ELSE SubSeq(s, 1, n)

\* strncmp(a, b, n) == 0
strncmp_equal(a, b, n) == Take(a, n) = Take(b, n)

\* index (0-based) of the first element of str_array whose first n characters
\* equal those of s, -1 when there is none
strv_strncmp(str_array, s, n) ==
    LET hits == {k \in 1..Len(str_array) : strncmp_equal(str_array[k], s, n)}
    IN  IF hits = {} THEN -1
        ELSE (CHOOSE k \in hits : \A m \in hits : k <= m) - 1

\* logprintf(fd, format, ...): one line handed to file descriptor fd
logprintf(l, fd, format, args) ==
    Append(l, [fd |-> fd, format |-> format, args |-> args])

-----------------------------------------------------------------------------
(* Inputs the callers may pass *)

AlgorithmTokens ==
    { "camellia", "camelliax", "camel", "tdes",
      "ecc-min-size=256", "ecc-min-size=224", "ecc-min-size=128",
      "ecc-min-size=", "ecc-min-size=x256", "ecc-min-size=+x",
      "ecc-min-size=-1", "ecc-min-size=256abc", "ecc-min-size",
      "rsa-min-size=2048", "rsa-min-size=1024" }

AttributeTokens == { "fips-host", "fips-hostx", "fips", "unrelated-profile" }

SeqsUpTo(S, n) == UNION { [1..k -> S] : k \in 0..n }

AlgorithmLists == SeqsUpTo(AlgorithmTokens, MaxAlgorithms)
AttributeLists == SeqsUpTo(AttributeTokens, MaxAttributes)

rsa_key_size == [keyword |-> "rsa-min-size=", min_size |-> 2048]

\* (fips_disabled_algos, key_sizes) pairs a caller of the static evaluator
\* may pass
EvaluatorLists ==
    { << <<>>, <<>> >>,
      << <<>>, fips_key_sizes \o <<rsa_key_size>> >>,
      << fips_disabled, <<>> >>,
      << <<"camellia">>, fips_key_sizes >>,
      << <<"tdes", "camellia">>, fips_key_sizes \o <<rsa_key_size>> >>,
      << fips_disabled, <<rsa_key_size>> \o fips_key_sizes >> }

\* error codes ERR_get_error() may hand back
HostErrors == { 0, 1 }

\* return values of FIPS_mode_set(0) / EVP_default_properties_enable_fips(NULL, 0)
HostRc == { 0, 1 }

-----------------------------------------------------------------------------
Init ==
    /\ have_fips \in BOOLEAN
    /\ fips_mode \in (IF have_fips THEN {0, 1} ELSE {0})
    /\ pc = "idle"
    /\ op = "none"
    /\ attributes = <<>>
    /\ algorithms = <<>>
    /\ fips_disabled_algos = <<>>
    /\ key_sizes = <<>>
    /\ i = 0
    /\ all_good = TRUE
    /\ iattr = 0
    /\ ret = FALSE
    /\ rc = "none"
    /\ log = <<>>
    /\ result = "none"

evaluator_vars == <<attributes, algorithms, fips_disabled_algos, key_sizes,
                    i, all_good, iattr, ret>>

-----------------------------------------------------------------------------
(* Host FIPS state accessor *)

fips_mode_enabled ==
    /\ pc = "idle"
    /\ op' = "fips_mode_enabled"
    /\ result' = IF have_fips THEN fips_mode # 0 ELSE FALSE
    /\ pc' = "done"
    /\ UNCHANGED <<have_fips, fips_mode, rc, log, evaluator_vars>>

\* int ret = 0; int rc = FIPS_mode_set(0) (or the EVP call); without a host
\* FIPS notion the function is "return 0"
fips_mode_disable ==
    /\ pc = "idle"
    /\ op' = "fips_mode_disable"
    /\ IF have_fips
       THEN /\ \E r \in HostRc :
                 /\ rc' = r
                 /\ fips_mode' = IF r = 1 THEN 0 ELSE fips_mode
            /\ pc' = "disable_rc"
            /\ UNCHANGED result
       ELSE /\ result' = 0
            /\ pc' = "done"
            /\ UNCHANGED <<fips_mode, rc>>
    /\ UNCHANGED <<have_fips, log, evaluator_vars>>

\* a rejection that is reported as success
fips_mode_disable_report_ok ==
    /\ pc = "disable_rc"
    /\ IF rc = 1
       THEN log' = logprintf(log, STDOUT_FILENO, MSG_DISABLED, <<>>)
       ELSE \E err \in HostErrors :
               log' = logprintf(log, STDERR_FILENO, MSG_FAILED, <<err>>)
    /\ result' = 0
    /\ pc' = "done"
    /\ UNCHANGED <<have_fips, fips_mode, op, rc, evaluator_vars>>

\* if (rc == 1) { warning } else { error line; ret = -1 }  return ret
fips_mode_disable_report ==
    /\ pc = "disable_rc"
    /\ IF rc = 1
       THEN /\ log' = logprintf(log, STDOUT_FILENO, MSG_DISABLED, <<>>)
            /\ result' = 0
       ELSE /\ \E err \in HostErrors :
                 log' = logprintf(log, STDERR_FILENO, MSG_FAILED, <<err>>)
            /\ result' = -1
    /\ pc' = "done"
    /\ UNCHANGED <<have_fips, fips_mode, op, rc, evaluator_vars>>

-----------------------------------------------------------------------------
(* _fips_algorithms_are_disabled *)

\* entry: all_good = true, i = 0 of the first loop
EnterEvaluator(algos, disabled, sizes) ==
    /\ algorithms' = algos
    /\ fips_disabled_algos' = disabled
    /\ key_sizes' = sizes
    /\ all_good' = TRUE
    /\ i' = 0
    /\ pc' = "disallowed"

\* a comparison bounded by the length of the disallowed name
ContainsAlgorithm_prefix(algos, name) ==
    strv_strncmp(algos, name, Len(name)) >= 0

\* strv_strncmp(algorithms, fips_disabled_algos[i], -1) >= 0
ContainsAlgorithm(algos, name) == strv_strncmp(algos, name, SIZE_MAX) >= 0

\* j = strv_strncmp(algorithms, key_sizes[i].keyword, strlen(keyword))
FindKeyword(algos, keyword) == strv_strncmp(algos, keyword, Len(keyword))

\* a parse that starts one character late
KeySizeValue_skip(algos, j, l) ==
    strtoul(SubSeq(algos[j + 1], l + 2, Len(algos[j + 1])))

\* v = strtoul(&(algorithms[j][l]), NULL, 10)
KeySizeValue(algos, j, l) ==
    strtoul(SubSeq(algos[j + 1], l + 1, Len(algos[j + 1])))

\* v <= min_size
TooSmall_le(v, min_size) == ~ULongLess(ToULong(min_size), v)

\* v < key_sizes[i].min_size
TooSmall(v, min_size) == ULongLess(v, ToULong(min_size))

\* a match that does not leave the loop
DisallowedFound_continue ==
    /\ pc = "disallowed"
    /\ i < Len(fips_disabled_algos)
    /\ ContainsAlgorithm(algorithms, fips_disabled_algos[i + 1])
    /\ log' = logprintf(log, STDERR_FILENO, MSG_CONTAIN,
                        <<fips_disabled_algos[i + 1]>>)
    /\ all_good' = FALSE
    /\ i' = i + 1
    /\ UNCHANGED <<have_fips, fips_mode, pc, op, attributes, algorithms,
                   fips_disabled_algos, key_sizes, iattr, ret, rc, result>>

\* a match that returns at once
DisallowedFound_return ==
    /\ pc = "disallowed"
    /\ i < Len(fips_disabled_algos)
    /\ ContainsAlgorithm(algorithms, fips_disabled_algos[i + 1])
    /\ log' = logprintf(log, STDERR_FILENO, MSG_CONTAIN,
                        <<fips_disabled_algos[i + 1]>>)
    /\ all_good' = FALSE
    /\ pc' = "return"
    /\ UNCHANGED <<have_fips, fips_mode, op, attributes, algorithms,
                   fips_disabled_algos, key_sizes, i, iattr, ret, rc, result>>

DisallowedFound ==
    /\ pc = "disallowed"
    /\ i < Len(fips_disabled_algos)
    /\ ContainsAlgorithm(algorithms, fips_disabled_algos[i + 1])
    /\ log' = logprintf(log, STDERR_FILENO, MSG_CONTAIN,
                        <<fips_disabled_algos[i + 1]>>)
    /\ all_good' = FALSE
    /\ i' = 0
    /\ pc' = "key_sizes"
    /\ UNCHANGED <<have_fips, fips_mode, op, attributes, algorithms,
                   fips_disabled_algos, key_sizes, iattr, ret, rc, result>>

DisallowedNotFound ==
    /\ pc = "disallowed"
    /\ i < Len(fips_disabled_algos)
    /\ ~ContainsAlgorithm(algorithms, fips_disabled_algos[i + 1])
    /\ i' = i + 1
    /\ UNCHANGED <<have_fips, fips_mode, pc, op, attributes, algorithms,
                   fips_disabled_algos, key_sizes, all_good, iattr, ret,
                   rc, log, result>>

DisallowedEnd ==
    /\ pc = "disallowed"
    /\ i >= Len(fips_disabled_algos)
    /\ i' = 0
    /\ pc' = "key_sizes"
    /\ UNCHANGED <<have_fips, fips_mode, op, attributes, algorithms,
                   fips_disabled_algos, key_sizes, all_good, iattr, ret,
                   rc, log, result>>

KeySizeTooSmall ==
    /\ pc = "key_sizes"
    /\ i < Len(key_sizes)
    /\ LET ks == key_sizes[i + 1]
           l  == Len(ks.keyword)
           j  == FindKeyword(algorithms, ks.keyword)
       IN  /\ j >= 0
           /\ TooSmall(KeySizeValue(algorithms, j, l), ks.min_size)
           /\ log' = logprintf(log, STDERR_FILENO, MSG_SMALLER,
                               <<ks.keyword, KeySizeValue(algorithms, j, l),
                                 ks.min_size>>)
    /\ all_good' = FALSE
    /\ pc' = "return"
    /\ UNCHANGED <<have_fips, fips_mode, op, attributes, algorithms,
                   fips_disabled_algos, key_sizes, i, iattr, ret, rc, result>>

KeySizeSatisfied ==
    /\ pc = "key_sizes"
    /\ i < Len(key_sizes)
    /\ LET ks == key_sizes[i + 1]
           l  == Len(ks.keyword)
           j  == FindKeyword(algorithms, ks.keyword)
       IN  /\ j >= 0
           /\ ~TooSmall(KeySizeValue(algorithms, j, l), ks.min_size)
    /\ i' = i + 1
    /\ UNCHANGED <<have_fips, fips_mode, pc, op, attributes, algorithms,
                   fips_disabled_algos, key_sizes, all_good, iattr, ret,
                   rc, log, result>>

\* the line goes to standard output
KeySizeMissing_stdout ==
    /\ pc = "key_sizes"
    /\ i < Len(key_sizes)
    /\ LET ks == key_sizes[i + 1]
       IN  /\ FindKeyword(algorithms, ks.keyword) < 0
           /\ log' = logprintf(log, STDOUT_FILENO, MSG_MISSING,
                               <<ks.keyword, ks.min_size>>)
    /\ all_good' = FALSE
    /\ i' = i + 1
    /\ UNCHANGED <<have_fips, fips_mode, pc, op, attributes, algorithms,
                   fips_disabled_algos, key_sizes, iattr, ret, rc, result>>

\* a missing statement that leaves the loop
KeySizeMissing_break ==
    /\ pc = "key_sizes"
    /\ i < Len(key_sizes)
    /\ LET ks == key_sizes[i + 1]
       IN  /\ FindKeyword(algorithms, ks.keyword) < 0
           /\ log' = logprintf(log, STDERR_FILENO, MSG_MISSING,
                               <<ks.keyword, ks.min_size>>)
    /\ all_good' = FALSE
    /\ pc' = "return"
    /\ UNCHANGED <<have_fips, fips_mode, op, attributes, algorithms,
                   fips_disabled_algos, key_sizes, i, iattr, ret, rc, result>>

KeySizeMissing ==
    /\ pc = "key_sizes"
    /\ i < Len(key_sizes)
    /\ LET ks == key_sizes[i + 1]
       IN  /\ FindKeyword(algorithms, ks.keyword) < 0
           /\ log' = logprintf(log, STDERR_FILENO, MSG_MISSING,
                               <<ks.keyword, ks.min_size>>)
    /\ all_good' = FALSE
    /\ i' = i + 1
    /\ UNCHANGED <<have_fips, fips_mode, pc, op, attributes, algorithms,
                   fips_disabled_algos, key_sizes, iattr, ret, rc, result>>

KeySizeEnd ==
    /\ pc = "key_sizes"
    /\ i >= Len(key_sizes)
    /\ pc' = "return"
    /\ UNCHANGED <<have_fips, fips_mode, op, attributes, algorithms,
                   fips_disabled_algos, key_sizes, i, all_good, iattr, ret,
                   rc, log, result>>

\* a direct call of the static evaluator with the caller's own lists
static_fips_algorithms_are_disabled ==
    /\ pc = "idle"
    /\ op' = "_fips_algorithms_are_disabled"
    /\ \E algos \in AlgorithmLists, lists \in EvaluatorLists :
          EnterEvaluator(algos, lists[1], lists[2])
    /\ UNCHANGED <<have_fips, fips_mode, attributes, iattr, ret, rc, log, result>>

-----------------------------------------------------------------------------
(* fips_algorithms_are_disabled *)

fips_algorithms_are_disabled ==
    /\ pc = "idle"
    /\ op' = "fips_algorithms_are_disabled"
    /\ \E algos \in AlgorithmLists :
          EnterEvaluator(algos, fips_disabled, fips_key_sizes)
    /\ UNCHANGED <<have_fips, fips_mode, attributes, iattr, ret, rc, log, result>>

\* return all_good, to a caller that returns it unchanged
ReturnVerdict ==
    /\ pc = "return"
    /\ op \in {"_fips_algorithms_are_disabled", "fips_algorithms_are_disabled"}
    /\ result' = all_good
    /\ pc' = "done"
    /\ UNCHANGED <<have_fips, fips_mode, op, rc, log, evaluator_vars>>

-----------------------------------------------------------------------------
(* fips_attributes_disable_bad_algos *)

\* ret starts as true
fips_attributes_disable_bad_algos_ret_true ==
    /\ pc = "idle"
    /\ op' = "fips_attributes_disable_bad_algos"
    /\ \E attrs \in AttributeLists, algos \in AlgorithmLists :
          /\ attributes' = attrs
          /\ algorithms' = algos
    /\ ret' = TRUE
    /\ iattr' = 0
    /\ pc' = "attributes"
    /\ UNCHANGED <<have_fips, fips_mode, fips_disabled_algos, key_sizes, i,
                   all_good, rc, log, result>>

fips_attributes_disable_bad_algos ==
    /\ pc = "idle"
    /\ op' = "fips_attributes_disable_bad_algos"
    /\ \E attrs \in AttributeLists, algos \in AlgorithmLists :
          /\ attributes' = attrs
          /\ algorithms' = algos
    /\ ret' = FALSE
    /\ iattr' = 0
    /\ pc' = "attributes"
    /\ UNCHANGED <<have_fips, fips_mode, fips_disabled_algos, key_sizes, i,
                   all_good, rc, log, result>>

\* strv_strncmp(attributes, fips_attributes[i].attr, -1) >= 0
ContainsAttribute(attrs, attr) == strv_strncmp(attrs, attr, SIZE_MAX) >= 0

AttributeMatch ==
    /\ pc = "attributes"
    /\ iattr < Len(fips_attributes)
    /\ ContainsAttribute(attributes, fips_attributes[iattr + 1].attr)
    /\ EnterEvaluator(algorithms,
                      fips_attributes[iattr + 1].fips_disabled_algos,
                      fips_attributes[iattr + 1].fips_key_sizes)
    /\ UNCHANGED <<have_fips, fips_mode, op, attributes, iattr, ret, rc,
                   log, result>>

AttributeNoMatch ==
    /\ pc = "attributes"
    /\ iattr < Len(fips_attributes)
    /\ ~ContainsAttribute(attributes, fips_attributes[iattr + 1].attr)
    /\ iattr' = iattr + 1
    /\ UNCHANGED <<have_fips, fips_mode, pc, op, attributes, algorithms,
                   fips_disabled_algos, key_sizes, i, all_good, ret, rc,
                   log, result>>

\* ret = _fips_algorithms_are_disabled(...); if (!ret) break;
AttributeVerdict ==
    /\ pc = "return"
    /\ op = "fips_attributes_disable_bad_algos"
    /\ ret' = all_good
    /\ IF ~all_good
       THEN /\ result' = all_good
            /\ pc' = "done"
            /\ UNCHANGED iattr
       ELSE /\ iattr' = iattr + 1
            /\ pc' = "attributes"
            /\ UNCHANGED result
    /\ UNCHANGED <<have_fips, fips_mode, op, attributes, algorithms,
                   fips_disabled_algos, key_sizes, i, all_good, rc, log>>

AttributesEnd ==
    /\ pc = "attributes"
    /\ iattr >= Len(fips_attributes)
    /\ result' = ret
    /\ pc' = "done"
    /\ UNCHANGED <<have_fips, fips_mode, op, rc, log, evaluator_vars>>

-----------------------------------------------------------------------------
Next ==
    \/ fips_mode_enabled
    \/ fips_mode_disable
    \/ fips_mode_disable_report
    \/ static_fips_algorithms_are_disabled
    \/ fips_algorithms_are_disabled
    \/ fips_attributes_disable_bad_algos
    \/ DisallowedFound
    \/ DisallowedNotFound
    \/ DisallowedEnd
    \/ KeySizeTooSmall
    \/ KeySizeSatisfied
    \/ KeySizeMissing
    \/ KeySizeEnd
    \/ ReturnVerdict
    \/ AttributeMatch
    \/ AttributeNoMatch
    \/ AttributeVerdict
    \/ AttributesEnd

Spec == Init /\ [][Next]_vars

-----------------------------------------------------------------------------
(* Vocabulary of the properties *)

Range(s) == { s[k] : k \in 1..Len(s) }

\* t starts with keyword
HasPrefix(t, keyword) ==
    Len(t) >= Len(keyword) /\ SubSeq(t, 1, Len(keyword)) = keyword

\* what follows the keyword in t
Rest(t, keyword) == SubSeq(t, Len(keyword) + 1, Len(t))

HasKeyword(E, keyword) == \E k \in 1..Len(E) : HasPrefix(E[k], keyword)

\* the first element of E that starts with keyword
FirstWithPrefix(E, keyword) ==
    E[CHOOSE k \in 1..Len(E) :
        /\ HasPrefix(E[k], keyword)
        /\ \A m \in 1..(k - 1) : ~HasPrefix(E[m], keyword)]

\* a well-formed unsigned decimal integer: digits and nothing else
WellFormed(s) ==
    Len(s) \in 1..9 /\ \A k \in 1..Len(s) : IsDigit(CharAt(s, k))

RECURSIVE DecValue(_)
\* the number a well-formed s denotes
DecValue(s) ==
    IF s = "" THEN 0
    ELSE DecValue(SubSeq(s, 1, Len(s) - 1)) * 10 + DigitVal(CharAt(s, Len(s)))

\* s holds no decimal digit right after optional white space and one
\* optional sign
NoNumber(s) ==
    \E n \in 0..Len(s) :
       /\ \A k \in 1..n : IsSpace(CharAt(s, k))
       /\ LET u == SubSeq(s, n + 1, Len(s))
          IN  \/ u = ""
              \/ /\ ~IsSpace(CharAt(u, 1))
                 /\ ~IsDigit(CharAt(u, 1))
                 /\ CharAt(u, 1) \in {"+", "-"} =>
                       (Len(u) = 1 \/ ~IsDigit(CharAt(u, 2)))

\* positions of the log that hold a line of the given format
Lines(format) == { k \in 1..Len(log) : log[k].format = format }

FipsWarnings == Lines(MSG_CONTAIN) \cup Lines(MSG_SMALLER) \cup Lines(MSG_MISSING)

\* a key-size line of the log is about the requirement ks
Diagnosed(ks) ==
    \E k \in Lines(MSG_SMALLER) \cup Lines(MSG_MISSING) :
       log[k].args[1] = ks.keyword

\* the first token of E with the requirement's keyword is keyword<v>, v >= min
FirstTokenSatisfies(E, ks) ==
    /\ HasKeyword(E, ks.keyword)
    /\ LET r == Rest(FirstWithPrefix(E, ks.keyword), ks.keyword)
       IN  WellFormed(r) /\ DecValue(r) >= ks.min_size

\* some token of E is keyword<v> with v >= min
SomeTokenSatisfies(E, ks) ==
    \E t \in Range(E) :
       /\ HasPrefix(t, ks.keyword)
       /\ WellFormed(Rest(t, ks.keyword))
       /\ DecValue(Rest(t, ks.keyword)) >= ks.min_size

\* the token the search selects parses to less than the minimum
FirstTokenTooSmall(E, ks) ==
    /\ HasKeyword(E, ks.keyword)
    /\ TooSmall(strtoul(Rest(FirstWithPrefix(E, ks.keyword), ks.keyword)),
                ks.min_size)

\* both sub-checks pass for E against the lists D and K
CombinedPasses(E, D, K) ==
    /\ Range(D) \cap Range(E) = {}
    /\ \A r \in 1..Len(K) :
          HasKeyword(E, K[r].keyword) /\ ~FirstTokenTooSmall(E, K[r])

InKeySizeLoop == pc = "key_sizes" /\ i < Len(key_sizes)

-----------------------------------------------------------------------------
(* C1: fips_attributes_disable_bad_algos(P, E) returns true if and only if *)
(* at least one entry of the policy table has its attribute name as an     *)
(* exact element of P and the combined check passes for every such entry;  *)
(* when no table attribute is an element of P it returns false.            *)
C1_Verdict ==
    (pc = "done" /\ op = "fips_attributes_disable_bad_algos") =>
       LET matching == { e \in Range(fips_attributes) :
                            e.attr \in Range(attributes) }
       IN  /\ result = ( /\ matching # {}
                         /\ \A e \in matching :
                               CombinedPasses(algorithms,
                                              e.fips_disabled_algos,
                                              e.fips_key_sizes) )
           /\ matching = {} => result = FALSE

C1_Witness ==
    /\ pc = "done"
    /\ op = "fips_attributes_disable_bad_algos"
    /\ "fips-host" \in Range(attributes)
    /\ "fips-hostx" \in Range(attributes)
    /\ Len(algorithms) = 2
    /\ result = TRUE

(* C2: fips_algorithms_are_disabled(E) returns true exactly when no        *)
(* element of E equals 'camellia', 'rsaes' or 'tdes' and the requirement   *)
(* ('ecc-min-size=', 224) is present and satisfied by the token the search *)
(* selects; it returns false whenever either sub-check fails.              *)
C2_Verdict ==
    (pc = "done" /\ op = "fips_algorithms_are_disabled") =>
       result = ( /\ Range(algorithms) \cap {"camellia", "rsaes", "tdes"} = {}
                  /\ HasKeyword(algorithms, "ecc-min-size=")
                  /\ ~ULongLess(
                        strtoul(Rest(FirstWithPrefix(algorithms, "ecc-min-size="),
                                     "ecc-min-size=")),
                        ToULong(224)) )

C2_Witness ==
    /\ pc = "done"
    /\ op = "fips_algorithms_are_disabled"
    /\ algorithms = <<"tdes", "ecc-min-size=256">>
    /\ result = FALSE

(* C3 as stated: when E holds some token k<v> with v >= m, the requirement *)
(* (k, m) is treated as satisfied (no diagnostic about it), whatever other *)
(* tokens E holds and in whatever order.                                   *)
C3_AnyToken ==
    pc \in {"return", "done"} =>
       \A r \in 1..Len(key_sizes) :
          SomeTokenSatisfies(algorithms, key_sizes[r]) =>
             ~Diagnosed(key_sizes[r])

(* C3 amended: when the first token of E that starts with k is k<v> with   *)
(* v >= m, the requirement (k, m) is treated as satisfied: examining it    *)
(* emits no line and leaves the verdict alone, and no line of the run is   *)
(* about it, whatever other tokens E holds.                                *)
C3_FirstToken ==
    /\ [](pc \in {"return", "done"} =>
            \A r \in 1..Len(key_sizes) :
               FirstTokenSatisfies(algorithms, key_sizes[r]) =>
                  ~Diagnosed(key_sizes[r]))
    /\ [][(InKeySizeLoop /\ FirstTokenSatisfies(algorithms, key_sizes[i + 1]))
             => (log' = log /\ all_good' = all_good /\ i' = i + 1 /\ pc' = pc)]_vars

C3_Witness ==
    /\ pc = "done"
    /\ op = "fips_algorithms_are_disabled"
    /\ algorithms = <<"ecc-min-size=224", "ecc-min-size=128">>
    /\ log = <<>>
    /\ result = TRUE

(* C4 as stated: every enabled token that starts with a requirement's      *)
(* keyword and whose remainder is not a well-formed unsigned decimal       *)
(* integer parses to 0, so the check returns false when min_size > 0.      *)
C4_Malformed ==
    pc = "return" =>
       \A r \in 1..Len(key_sizes) : \A t \in Range(algorithms) :
          ( /\ key_sizes[r].min_size > 0
            /\ HasPrefix(t, key_sizes[r].keyword)
            /\ ~WellFormed(Rest(t, key_sizes[r].keyword)) )
          => ( /\ strtoul(Rest(t, key_sizes[r].keyword)) = ULONG_ZERO
               /\ all_good = FALSE )

\* the token the search selects for ks has a remainder without a number
FirstTokenNoNumber(E, ks) ==
    /\ ks.min_size > 0
    /\ HasKeyword(E, ks.keyword)
    /\ NoNumber(Rest(FirstWithPrefix(E, ks.keyword), ks.keyword))

(* C4 amended: when the token the search selects for a requirement (the    *)
(* first that starts with its keyword) has a remainder with no decimal     *)
(* digit right after optional white space and an optional sign, the parse  *)
(* yields 0: the requirement with min_size > 0 is reported too small with  *)
(* value 0 when the loop reaches it, and the check returns false.          *)
C4_NoNumber ==
    /\ [](pc = "return" =>
            \A r \in 1..Len(key_sizes) :
               FirstTokenNoNumber(algorithms, key_sizes[r]) =>
                  /\ strtoul(Rest(FirstWithPrefix(algorithms, key_sizes[r].keyword),
                                  key_sizes[r].keyword)) = ULONG_ZERO
                  /\ all_good = FALSE)
    /\ [][(InKeySizeLoop /\ FirstTokenNoNumber(algorithms, key_sizes[i + 1]))
             => /\ Len(log') = Len(log) + 1
                /\ log'[Len(log')].format = MSG_SMALLER
                /\ log'[Len(log')].args =
                      <<key_sizes[i + 1].keyword, ULONG_ZERO,
                        key_sizes[i + 1].min_size>>
                /\ all_good' = FALSE
                /\ pc' = "return"]_vars

C4_Witness ==
    /\ pc = "done"
    /\ op = "fips_algorithms_are_disabled"
    /\ algorithms = <<"ecc-min-size=x256", "ecc-min-size=256">>
    /\ Lines(MSG_SMALLER) = {1}
    /\ log[1].args = <<"ecc-min-size=", ULONG_ZERO, 224>>
    /\ result = FALSE

(* C5: the disallowed-algorithm check reports a disallowed algorithm if    *)
(* and only if some entry of D is identical to some element of E; an       *)
(* element of E that contains, starts with or is a prefix of a disallowed  *)
(* name does not match, and an empty D yields no match.                    *)
C5_ExactMatch ==
    pc \in {"key_sizes", "return", "done"} =>
       /\ Lines(MSG_CONTAIN) # {} <=>
             (\E d \in Range(fips_disabled_algos), e \in Range(algorithms) : d = e)
       /\ \A k \in Lines(MSG_CONTAIN) :
             /\ log[k].args[1] \in Range(fips_disabled_algos)
             /\ log[k].args[1] \in Range(algorithms)
       /\ fips_disabled_algos = <<>> => Lines(MSG_CONTAIN) = {}

C5_Witness ==
    /\ pc = "done"
    /\ "camellia" \in Range(fips_disabled_algos)
    /\ algorithms = <<"camelliax", "camel">>
    /\ Lines(MSG_CONTAIN) = {}

(* C6 as stated: every warning line goes to standard output and only the   *)
(* 'Failed to disable OpenSSL FIPS mode' line goes to standard error.      *)
C6_WarningsOnStdout ==
    \A k \in 1..Len(log) :
       log[k].fd = IF log[k].format = MSG_FAILED THEN STDERR_FILENO
                   ELSE STDOUT_FILENO

(* C6 amended: 'Warning: Disabled OpenSSL FIPS mode' is written to         *)
(* standard output; the three 'Warning(FIPS): ...' lines of the evaluator  *)
(* and the 'Failed to disable OpenSSL FIPS mode' line are written to       *)
(* standard error.                                                         *)
C6_Streams ==
    \A k \in 1..Len(log) :
       /\ log[k].format \in {MSG_DISABLED, MSG_FAILED, MSG_CONTAIN,
                             MSG_SMALLER, MSG_MISSING}
       /\ log[k].fd = IF log[k].format = MSG_DISABLED THEN STDOUT_FILENO
                      ELSE STDERR_FILENO

C6_Witness ==
    /\ pc = "done"
    /\ Lines(MSG_CONTAIN) # {}
    /\ Lines(MSG_MISSING) # {}
    /\ \A k \in 1..Len(log) : log[k].fd = STDERR_FILENO

(* C7: fips_mode_disable returns 0 and emits exactly the line 'Warning:    *)
(* Disabled OpenSSL FIPS mode' when the host accepts the request, returns  *)
(* -1 and emits exactly one 'Failed to disable OpenSSL FIPS mode' line     *)
(* when the host rejects it, and never returns success after a rejection;  *)
(* without a host FIPS notion query reports not-enabled and disable        *)
(* returns 0.                                                              *)
C7_Faithful ==
    /\ (pc = "done" /\ op = "fips_mode_disable" /\ have_fips) =>
          IF rc = 1
          THEN /\ result = 0
               /\ Len(log) = 1
               /\ log[1].format = MSG_DISABLED
               /\ log[1].args = <<>>
          ELSE /\ result = -1
               /\ Len(log) = 1
               /\ log[1].format = MSG_FAILED
    /\ (pc = "done" /\ op = "fips_mode_disable" /\ ~have_fips) =>
          (result = 0 /\ log = <<>>)
    /\ (pc = "done" /\ op = "fips_mode_enabled" /\ ~have_fips) =>
          result = FALSE

C7_Witness ==
    /\ pc = "done"
    /\ op = "fips_mode_disable"
    /\ have_fips
    /\ rc = 0
    /\ result = -1
    /\ fips_mode = 1

(* C8: in the key-size check a requirement with no matching token emits    *)
(* one 'Missing statement' line, clears the verdict and the loop goes on   *)
(* to the next requirement; the first requirement whose parsed value is    *)
(* below min_size emits one 'smaller than required' line, clears the       *)
(* verdict and ends the loop; either way the result is false.              *)
C8_ControlFlow ==
    /\ [](pc \in {"return", "done"} =>
            /\ (Lines(MSG_MISSING) \cup Lines(MSG_SMALLER) # {}) => all_good = FALSE
            /\ Cardinality(Lines(MSG_SMALLER)) <= 1
            /\ \A k \in Lines(MSG_SMALLER) : k = Len(log))
    /\ [][(InKeySizeLoop /\ ~HasKeyword(algorithms, key_sizes[i + 1].keyword))
             => /\ Len(log') = Len(log) + 1
                /\ SubSeq(log', 1, Len(log)) = log
                /\ log'[Len(log')].format = MSG_MISSING
                /\ log'[Len(log')].args[1] = key_sizes[i + 1].keyword
                /\ all_good' = FALSE
                /\ pc' = "key_sizes"
                /\ i' = i + 1]_vars
    /\ [][(InKeySizeLoop /\ FirstTokenTooSmall(algorithms, key_sizes[i + 1]))
             => /\ Len(log') = Len(log) + 1
                /\ SubSeq(log', 1, Len(log)) = log
                /\ log'[Len(log')].format = MSG_SMALLER
                /\ log'[Len(log')].args[1] = key_sizes[i + 1].keyword
                /\ all_good' = FALSE
                /\ pc' = "return"
                /\ i' = i]_vars

C8_Witness ==
    /\ pc = "done"
    /\ op = "_fips_algorithms_are_disabled"
    /\ key_sizes = <<rsa_key_size>> \o fips_key_sizes
    /\ algorithms = <<"ecc-min-size=256">>
    /\ Lines(MSG_MISSING) = {Len(log)}
    /\ Lines(MSG_SMALLER) = {}
    /\ i = 2
    /\ result = FALSE

(* C9: in one run of the check at most one 'Enable algorithms contain'     *)
(* line is emitted, it names the earliest entry of the disallowed list     *)
(* that is an element of enabled, and the scan stops there.                *)
C9_FirstMatchOnly ==
    /\ [](/\ Cardinality(Lines(MSG_CONTAIN)) <= 1
          /\ \A k \in Lines(MSG_CONTAIN) :
                \E n \in 1..Len(fips_disabled_algos) :
                   /\ log[k].args = <<fips_disabled_algos[n]>>
                   /\ fips_disabled_algos[n] \in Range(algorithms)
                   /\ \A m \in 1..(n - 1) :
                         fips_disabled_algos[m] \notin Range(algorithms))
    /\ [][(pc = "disallowed" /\ log' # log) => pc' = "key_sizes"]_vars

C9_Witness ==
    /\ pc = "done"
    /\ fips_disabled_algos = <<"tdes", "camellia">>
    /\ algorithms = <<"camellia", "tdes">>
    /\ Lines(MSG_CONTAIN) = {1}
    /\ log[1].args = <<"tdes">>

(* C10: for every run of the combined check the verdict is false if and    *)
(* only if at least one 'Warning(FIPS)' line was emitted in that run, and  *)
(* a disallowed-algorithm match does not suppress the key-size loop.       *)
C10_VerdictAndLines ==
    /\ [](pc = "return" => (all_good = FALSE <=> FipsWarnings # {}))
    /\ []((pc = "done" /\ op \in {"_fips_algorithms_are_disabled",
                                  "fips_algorithms_are_disabled"})
             => (result = FALSE <=> FipsWarnings # {}))
    /\ []((pc = "return" /\ Lines(MSG_CONTAIN) # {} /\ key_sizes # <<>>) =>
             /\ ~HasKeyword(algorithms, key_sizes[1].keyword)
                   => \E k \in Lines(MSG_MISSING) :
                         log[k].args[1] = key_sizes[1].keyword
             /\ FirstTokenTooSmall(algorithms, key_sizes[1])
                   => \E k \in Lines(MSG_SMALLER) :
                         log[k].args[1] = key_sizes[1].keyword)
    /\ [][(pc = "disallowed" /\ log' # log) => (pc' = "key_sizes" /\ i' = 0)]_vars

C10_Witness ==
    /\ pc = "done"
    /\ op = "fips_algorithms_are_disabled"
    /\ algorithms = <<"camellia">>
    /\ Len(log) = 2
    /\ log[1].format = MSG_CONTAIN
    /\ log[2].format = MSG_MISSING
    /\ result = FALSE

====
